---------------------------- MODULE Spec2Model ----------------------------
(***************************************************************************)
(* Training-session HTTP service (signup, login, sessions, emargement).   *)
(*                                                                         *)
(* The model follows src/unnamed/part_000 (the express application) and   *)
(* src/lib.js (the mysql2 connection).  A request runs its route's        *)
(* middleware chain synchronously, then the handler runs from one await   *)
(* to the next.  Statements sent on the single mysql2 connection are      *)
(* executed in the order they were issued (dbq).  bcrypt calls complete   *)
(* at any later time.  Each response is recorded in `out` by the step     *)
(* that sends it.                                                          *)
(*                                                                         *)
(* ./middleware.js (validateData, checkAuthForm, checkAuthEtud) and the   *)
(* SQL schema are not part of the available sources: they are modelled    *)
(* from the written specification.                                         *)
(***************************************************************************)
EXTENDS Integers, Sequences, FiniteSets, TLC

VARIABLES
    user,        \* table user: rows in primary-key order
    session,     \* table session: rows in primary-key order
    emargement,  \* table emargement: rows in primary-key order
    autoInc,     \* AUTO_INCREMENT counter of each table
    req,         \* the requests in flight, per slot
    dbq,         \* slots whose statement is pending on the connection, FIFO
    issued,      \* tokens handed to clients by login
    signedUp,    \* history: the signups answered with 200
    posted,      \* history: session id -> title/date of its answered POST
    deleted,     \* history: ids of the session rows a DELETE has removed
    nreq,        \* the number of requests received
    out          \* the response sent by the last step, with its request

vars == <<user, session, emargement, autoInc, req, dbq, issued, signedUp, posted, deleted, nreq, out>>

store == <<user, session, emargement>>

----------------------------------------------------------------------------
(* Bounds of the model *)

\* requests received in one run
MaxRequests == 7

\* The session ids requests name in their path
SessionIds == {1, 2}

\* Requests that may be in flight together
Slots == {1, 2}

----------------------------------------------------------------------------
(* Sequences helpers *)

Range(s) == {s[i] : i \in DOMAIN s}

----------------------------------------------------------------------------
(* bcrypt, as used by signup (hash, cost 10) and login (compare) *)

SaltRounds == 10

Salts == {"salt"}

Digest(cost, salt, password) == <<"bcrypt", cost, salt, password>>

BcryptHash(password, cost, salt) ==
    [cost |-> cost, salt |-> salt, digest |-> Digest(cost, salt, password)]

BcryptCompare(password, hashed) ==
    hashed.digest = Digest(hashed.cost, hashed.salt, password)

----------------------------------------------------------------------------
(* jsonwebtoken: HS256 signature over the payload with the process key *)

JWT_KEY == "JWT_KEY"

Signature(payload, key) == <<"HS256", key, payload.id, payload.role>>

JwtSign(payload, key) ==
    [kind |-> "jwt", payload |-> payload, sig |-> Signature(payload, key)]

NoToken == [kind |-> "none"]
Garbage == [kind |-> "garbage"]

\* "ok" with the payload, or the failure of jwt.verify
JwtVerify(token, key) ==
    IF token.kind # "jwt" THEN [ok |-> FALSE, error |-> "Malformed"]
    ELSE IF token.sig # Signature(token.payload, key)
         THEN [ok |-> FALSE, error |-> "InvalidSignature"]
         ELSE [ok |-> TRUE, payload |-> token.payload]

----------------------------------------------------------------------------
(* Calendar dates.  A date text "YYYY-MM-DD" is the record of its three    *)
(* numbers; a JavaScript Date is an instant, in hours since 1970-01-01T00Z *)

Date(y, m, d) == [y |-> y, m |-> m, d |-> d]

IsLeap(y) == (y % 4 = 0 /\ y % 100 # 0) \/ y % 400 = 0

DaysInMonth(y, m) ==
    IF m = 2 THEN (IF IsLeap(y) THEN 28 + 1 ELSE 28)
    ELSE IF m \in {4, 6, 9, 11} THEN 30 ELSE 31

DaysInYear(y) == IF IsLeap(y) THEN 366 ELSE 365

RECURSIVE DaysBeforeYear(_)
DaysBeforeYear(y) == IF y <= 1970 THEN 0 ELSE DaysInYear(y - 1) + DaysBeforeYear(y - 1)

RECURSIVE DaysBeforeMonth(_, _)
DaysBeforeMonth(y, m) ==
    IF m <= 1 THEN 0 ELSE DaysInMonth(y, m - 1) + DaysBeforeMonth(y, m - 1)

\* days from 1970-01-01 to the date
DayNumber(date) == DaysBeforeYear(date.y) + DaysBeforeMonth(date.y, date.m) + (date.d - 1)

RECURSIVE YearOfDay(_, _)
YearOfDay(n, y) == IF n < DaysInYear(y) THEN y ELSE YearOfDay(n - DaysInYear(y), y + 1)

RECURSIVE MonthOfDay(_, _, _)
MonthOfDay(n, y, m) ==
    IF n < DaysInMonth(y, m) THEN m ELSE MonthOfDay(n - DaysInMonth(y, m), y, m + 1)

\* the date of day number n (n >= 0)
CivilFromDays(n) ==
    LET y == YearOfDay(n, 1970)
        inYear == n - DaysBeforeYear(y)
        m == MonthOfDay(inYear, y, 1)
    IN  Date(y, m, inYear - DaysBeforeMonth(y, m) + 1)

\* Date.prototype.toISOString().split("T")[0]: the UTC calendar date of the instant
ToISODate(instant) == CivilFromDays(instant \div 24)

----------------------------------------------------------------------------
(* The mysql2 connection of connectDb (src/lib.js) *)

\* timezone: "+01:00", in hours
TimezoneHours == 1

\* dateStrings left out of the connection options
DateStringsOff == FALSE

\* dateStrings: true
DateStrings == TRUE

\* What the driver hands back for a DATE column holding `date`: the text as
\* it is with dateStrings, otherwise a Date at midnight in the connection's
\* timezone.
DriverDate(date) ==
    IF DateStrings
    THEN [type |-> "string", text |-> date]
    ELSE [type |-> "Date", instant |-> DayNumber(date) * 24 - TimezoneHours]

\* A DATE column stores the calendar date of a valid "YYYY-MM-DD" text
ColumnDate(text) == Date(text.y, text.m, text.d)

\* One row of `SELECT * FROM session` as the driver returns it
DriverSessionRow(row) ==
    [id |-> row.id, title |-> row.title, date |-> DriverDate(row.date),
     formateur_id |-> row.formateur_id]

----------------------------------------------------------------------------
(* The zod schemas *)

Roles == {"etudiant", "formateur"}

\* zod's verdict on the e-mail texts the model uses
IsEmail(s) == s \in {"a@x.com", "b@x.com", "c@x.com"}

\* z.string().date(): a calendar date that exists
IsDate(t) == t.m \in 1..12 /\ t.d \in 1..DaysInMonth(t.y, t.m)

Has(body, field) == field \in DOMAIN body

userSchema(body) ==
    {f \in {"name", "email", "password", "role"} : ~Has(body, f)}
    \cup (IF Has(body, "name") /\ Len(body.name) < 2 THEN {"name"} ELSE {})
    \cup (IF Has(body, "email") /\ ~IsEmail(body.email) THEN {"email"} ELSE {})
    \cup (IF Has(body, "password") /\ Len(body.password) < 6 THEN {"password"} ELSE {})
    \cup (IF Has(body, "role") /\ body.role \notin Roles THEN {"role"} ELSE {})

loginSchema(body) ==
    {f \in {"email", "password"} : ~Has(body, f)}
    \cup (IF Has(body, "email") /\ ~IsEmail(body.email) THEN {"email"} ELSE {})
    \cup (IF Has(body, "password") /\ Len(body.password) < 6 THEN {"password"} ELSE {})

sessionsSchema(body) ==
    {f \in {"email", "title", "date_session"} : ~Has(body, f)}
    \cup (IF Has(body, "email") /\ ~IsEmail(body.email) THEN {"email"} ELSE {})
    \cup (IF Has(body, "title") /\ Len(body.title) < 4 THEN {"title"} ELSE {})
    \cup (IF Has(body, "date_session") /\ ~IsDate(body.date_session)
          THEN {"date_session"} ELSE {})

modifSessionsSchema(body) ==
    {f \in {"newTitle", "newDate_session", "newFormateurName"} : ~Has(body, f)}
    \cup (IF Has(body, "newTitle") /\ Len(body.newTitle) < 4 THEN {"newTitle"} ELSE {})
    \cup (IF Has(body, "newDate_session") /\ ~IsDate(body.newDate_session)
          THEN {"newDate_session"} ELSE {})
    \cup (IF Has(body, "newFormateurName") /\ Len(body.newFormateurName) < 2
          THEN {"newFormateurName"} ELSE {})

emargementSchema(body) ==
    {f \in {"email"} : ~Has(body, f)}
    \cup (IF Has(body, "email") /\ ~IsEmail(body.email) THEN {"email"} ELSE {})

----------------------------------------------------------------------------
(* Routes and their middleware chains, in the order app.METHOD lists them *)

Routes ==
    {"POST /auth/signup", "POST /auth/login", "POST /sessions", "GET /sessions",
     "GET /sessions/:id", "PUT /sessions/:id", "DELETE /sessions/:id",
     "POST /sessions/:id/emargement", "GET /sessions/:id/emargement"}

\* The chains with checkAuthForm left out of DELETE /sessions/:id
ChainDeleteOpen(route) ==
    CASE route = "POST /auth/signup" -> <<"express.json", "validateData">>
      [] route = "POST /auth/login" -> <<"express.json", "validateData">>
      [] route = "POST /sessions" -> <<"express.json", "validateData", "checkAuthForm">>
      [] route = "GET /sessions" -> <<>>
      [] route = "GET /sessions/:id" -> <<>>
      [] route = "PUT /sessions/:id" -> <<"express.json", "checkAuthForm", "validateData">>
      [] route = "DELETE /sessions/:id" -> <<"express.json">>
      [] route = "POST /sessions/:id/emargement" ->
            <<"express.json", "checkAuthEtud", "validateData">>
      [] route = "GET /sessions/:id/emargement" -> <<"checkAuthForm">>

Chain(route) ==
    CASE route = "POST /auth/signup" -> <<"express.json", "validateData">>
      [] route = "POST /auth/login" -> <<"express.json", "validateData">>
      [] route = "POST /sessions" -> <<"express.json", "validateData", "checkAuthForm">>
      [] route = "GET /sessions" -> <<>>
      [] route = "GET /sessions/:id" -> <<>>
      [] route = "PUT /sessions/:id" -> <<"express.json", "checkAuthForm", "validateData">>
      [] route = "DELETE /sessions/:id" -> <<"express.json", "checkAuthForm">>
      [] route = "POST /sessions/:id/emargement" ->
            <<"express.json", "checkAuthEtud", "validateData">>
      [] route = "GET /sessions/:id/emargement" -> <<"checkAuthForm">>

\* The field errors of the schema given to validateData on the route
SchemaErrors(route, body) ==
    CASE route = "POST /auth/signup" -> userSchema(body)
      [] route = "POST /auth/login" -> loginSchema(body)
      [] route = "POST /sessions" -> sessionsSchema(body)
      [] route = "PUT /sessions/:id" -> modifSessionsSchema(body)
      [] route = "POST /sessions/:id/emargement" -> emargementSchema(body)
      [] OTHER -> {}

----------------------------------------------------------------------------
(* ./middleware.js, from the written contract: a middleware either calls   *)
(* next() or sends the response itself                                     *)

PassOn == [next |-> TRUE]

Reply(res) == [next |-> FALSE, res |-> res]

\* validate(schema, payload) -> ok | list of field errors
validateData(route, body) ==
    IF SchemaErrors(route, body) = {} THEN PassOn
    ELSE Reply([status |-> 400, errors |-> SchemaErrors(route, body)])

\* requireRole(role): 401 without a verifiable token, 403 on another role
requireRole(role, token) ==
    IF token.kind = "none" \/ ~JwtVerify(token, JWT_KEY).ok
    THEN Reply([status |-> 401, error |-> "Unauthenticated"])
    ELSE IF JwtVerify(token, JWT_KEY).payload.role # role
         THEN Reply([status |-> 403, error |-> "Forbidden"])
         ELSE PassOn

checkAuthForm(token) == requireRole("formateur", token)

checkAuthEtud(token) == requireRole("etudiant", token)

Middleware(name, route, token, body) ==
    CASE name = "express.json" -> PassOn
      [] name = "validateData" -> validateData(route, body)
      [] name = "checkAuthForm" -> checkAuthForm(token)
      [] name = "checkAuthEtud" -> checkAuthEtud(token)

\* Runs the chain from its i-th middleware: the first reply, or PassOn when
\* every middleware called next() and the handler is to run.
RECURSIVE RunChain(_, _, _, _)
RunChain(route, token, body, i) ==
    IF i > Len(Chain(route)) THEN PassOn
    ELSE LET m == Middleware(Chain(route)[i], route, token, body)
         IN  IF m.next THEN RunChain(route, token, body, i + 1) ELSE m

----------------------------------------------------------------------------
(* The requests the model sends *)

SignupBodies ==
    {[name |-> "Ana", email |-> "a@x.com", password |-> "secret1", role |-> "etudiant"],
     [name |-> "Bob", email |-> "b@x.com", password |-> "secret2", role |-> "formateur"],
     [name |-> "Ann", email |-> "a@x.com", password |-> "secret2", role |-> "formateur"],
     [name |-> "A", email |-> "a@x.com", password |-> "secret1", role |-> "admin"]}

LoginBodies ==
    {[email |-> "a@x.com", password |-> "secret1"],
     [email |-> "a@x.com", password |-> "secret2"],
     [email |-> "b@x.com", password |-> "secret2"],
     [email |-> "c@x.com", password |-> "secret1"],
     [email |-> "a@x.com"]}

SessionBodies ==
    {[email |-> "a@x.com", title |-> "Math", date_session |-> Date(2024, 12, 9)],
     [email |-> "b@x.com", title |-> "Java", date_session |-> Date(2024, 3, 1)],
     [email |-> "c@x.com", title |-> "Math", date_session |-> Date(2024, 12, 9)],
     [email |-> "b@x.com", title |-> "Go", date_session |-> Date(2023, 2, 29)]}

ModifBodies ==
    {[newTitle |-> "Algo", newDate_session |-> Date(2025, 1, 1), newFormateurName |-> "Ana"],
     [newTitle |-> "Algo", newDate_session |-> Date(2025, 1, 1), newFormateurName |-> "Bob"],
     [newTitle |-> "Algo", newDate_session |-> Date(2025, 1, 1), newFormateurName |-> "Zoe"],
     [newTitle |-> "Al", newDate_session |-> Date(2025, 1, 1)]}

EmargementBodies ==
    {[email |-> "a@x.com"], [email |-> "b@x.com"], [email |-> "c@x.com"],
     [email |-> "nobody"]}

\* A request without a body (express.json leaves req.body empty)
NoBody == [empty |-> TRUE]

Bodies(route) ==
    CASE route = "POST /auth/signup" -> SignupBodies
      [] route = "POST /auth/login" -> LoginBodies
      [] route = "POST /sessions" -> SessionBodies
      [] route = "PUT /sessions/:id" -> ModifBodies
      [] route = "POST /sessions/:id/emargement" -> EmargementBodies
      [] OTHER -> {NoBody}

\* A token signed with another key than the server's
ForgedToken == JwtSign([id |-> 1, role |-> "formateur"], "other key")

Gated(route) ==
    \E i \in DOMAIN Chain(route) : Chain(route)[i] \in {"checkAuthForm", "checkAuthEtud"}

\* Authorization headers that carry no token the server signed
BadTokens == {NoToken, Garbage, ForgedToken}

\* :id(\\d+), parsed by parseInt
Ids(route) ==
    IF route \in {"GET /sessions/:id", "PUT /sessions/:id", "DELETE /sessions/:id",
                  "POST /sessions/:id/emargement", "GET /sessions/:id/emargement"}
    THEN SessionIds
    ELSE {0}

\* The bodies sent without a signed token: the malformed ones and one well-formed
ProbeBodies(route) ==
    LET valid == {b \in Bodies(route) : SchemaErrors(route, b) = {}}
    IN  (Bodies(route) \ valid) \cup (IF valid = {} THEN {} ELSE {CHOOSE b \in valid : TRUE})

\* The requests <<token, id, body>> clients send to a route: every id and body
\* with a token login handed out (without one on the open routes), and the
\* probes with the other headers
Requests(route) ==
    IF Gated(route)
    THEN (issued \X Ids(route) \X Bodies(route))
         \cup (BadTokens \X {CHOOSE id \in Ids(route) : TRUE} \X ProbeBodies(route))
    ELSE {NoToken} \X Ids(route) \X Bodies(route)

----------------------------------------------------------------------------
(* State *)

Idle == [pc |-> "idle"]

NoEvent == [route |-> "none"]

Init ==
    /\ user = <<>>
    /\ session = <<>>
    /\ emargement = <<>>
    /\ autoInc = [user |-> 1, session |-> 1, emargement |-> 1]
    /\ req = [r \in Slots |-> Idle]
    /\ dbq = <<>>
    /\ issued = {}
    /\ signedUp = {}
    /\ posted = <<>>
    /\ deleted = {}
    /\ nreq = 0
    /\ out = NoEvent

\* The response `res` to the request of slot r, as sent
Event(r, res) ==
    [route |-> req[r].route, token |-> req[r].token, id |-> req[r].id,
     body |-> req[r].body, known |-> req[r].known, res |-> res]

\* The handler's first await
FirstPc(route) ==
    CASE route = "POST /auth/signup" -> "L30_hash"
      [] route = "POST /auth/login" -> "L59_select"
      [] route = "POST /sessions" -> "L105_select"
      [] route = "GET /sessions" -> "L130_select"
      [] route = "GET /sessions/:id" -> "L155_select"
      [] route = "PUT /sessions/:id" -> "L199_select"
      [] route = "DELETE /sessions/:id" -> "L236_delete"
      [] route = "POST /sessions/:id/emargement" -> "L267_select"
      [] route = "GET /sessions/:id/emargement" -> "L302_select"

\* History: the body's e-mail and password are those of an answered signup
Known(body) ==
    \E s \in signedUp :
        /\ Has(body, "email") /\ Has(body, "password")
        /\ s.email = body.email /\ s.password = body.password

\* A request arrives: its chain runs, then the handler up to its first await
Arrive(r, route, token, id, body) ==
    /\ out = NoEvent
    /\ req[r].pc = "idle"
    /\ \A q \in Slots : q < r => req[q].pc # "idle"
    /\ nreq < MaxRequests
    /\ nreq' = nreq + 1
    /\ LET chain == RunChain(route, token, body, 1)
           new == [pc |-> FirstPc(route), route |-> route, token |-> token, id |-> id,
                   body |-> body, known |-> Known(body), loc |-> [none |-> TRUE]]
       IN  IF chain.next
           THEN /\ req' = [req EXCEPT ![r] = new]
                /\ dbq' = IF new.pc = "L30_hash" THEN dbq ELSE Append(dbq, r)
                /\ out' = NoEvent
           ELSE /\ out' = [route |-> route, token |-> token, id |-> id, body |-> body,
                           known |-> Known(body), res |-> chain.res]
                /\ UNCHANGED <<req, dbq>>
    /\ UNCHANGED <<user, session, emargement, autoInc, issued, signedUp, posted, deleted>>

\* The statement of slot r is the one the connection executes next
Executes(r, pc) == out = NoEvent /\ dbq # <<>> /\ Head(dbq) = r /\ req[r].pc = pc

\* The handler of slot r sends `res` and ends
Respond(r, res) ==
    /\ out' = Event(r, res)
    /\ req' = [req EXCEPT ![r] = Idle]

----------------------------------------------------------------------------
(* POST /auth/signup *)

\* bcrypt.hash(data.password, 10) completes; the INSERT is sent
SignupHashed(r, salt) ==
    /\ out = NoEvent
    /\ req[r].pc = "L30_hash"
    /\ req' = [req EXCEPT ![r].pc = "L31_insert",
                          ![r].loc = [hashedPassword |->
                                        BcryptHash(req[r].body.password, SaltRounds, salt)]]
    /\ dbq' = Append(dbq, r)
    /\ out' = NoEvent
    /\ UNCHANGED <<user, session, emargement, autoInc, issued, signedUp, posted, deleted, nreq>>

\* The unique key on user.email
EmailTaken(email) == \E i \in DOMAIN user : user[i].email = email

\* REPLACE INTO user ...: a row holding the email is replaced by the new one
ReplaceUser(row) ==
    LET Other(u) == u.email # row.email
    IN  [ok |-> TRUE, rows |-> Append(SelectSeq(user, Other), row)]

\* INSERT INTO user (name, email, password, role) VALUES (?, ?, ?, ?):
\* the row is added, or the statement fails on the key
InsertUser(row) ==
    IF EmailTaken(row.email)
    THEN [ok |-> FALSE, message |-> "ER_DUP_ENTRY", rows |-> user]
    ELSE [ok |-> TRUE, rows |-> Append(user, row)]

\* A catch that answers 200 with the message
SignupFailedSilently(message) == [status |-> 200, json |-> [error |-> message]]

\* catch (error): res.status(500).json({ error: error.message })
SignupFailed(message) == [status |-> 500, json |-> [error |-> message]]

SignupInserted(r) ==
    /\ Executes(r, "L31_insert")
    /\ dbq' = Tail(dbq)
    /\ LET data == req[r].body
           insertId == autoInc.user
           result == InsertUser([id |-> insertId, name |-> data.name,
                                 email |-> data.email,
                                 password |-> req[r].loc.hashedPassword,
                                 role |-> data.role])
       IN  IF ~result.ok
           THEN /\ Respond(r, SignupFailed(result.message))
                /\ UNCHANGED <<user, autoInc, signedUp>>
           ELSE /\ user' = result.rows
                /\ autoInc' = [autoInc EXCEPT !.user = insertId + 1]
                /\ signedUp' = signedUp \cup
                      {[id |-> insertId, email |-> data.email,
                        password |-> data.password, role |-> data.role]}
                /\ Respond(r, [status |-> 200,
                               json |-> [id |-> insertId, name |-> data.name,
                                         email |-> data.email, role |-> data.role]])
    /\ UNCHANGED <<session, emargement, issued, posted, deleted, nreq>>

----------------------------------------------------------------------------
(* POST /auth/login *)

\* SELECT id, password, role FROM user WHERE email = ?
LoginSelected(r) ==
    /\ Executes(r, "L59_select")
    /\ dbq' = Tail(dbq)
    /\ LET Match(row) == row.email = req[r].body.email
           rows == SelectSeq(user, Match)
       IN  IF Len(rows) = 0
           THEN Respond(r, [status |-> 401, send |-> "User not found"])
           ELSE /\ req' = [req EXCEPT ![r].pc = "L70_compare", ![r].loc = [rows |-> rows]]
                /\ out' = NoEvent
    /\ UNCHANGED <<user, session, emargement, autoInc, issued, signedUp, posted, deleted, nreq>>

\* A payload that takes the role of the first user row
LoginPayloadFirstRole(row) == [id |-> row.id, role |-> user[1].role]

\* The payload login signs
LoginPayload(row) == [id |-> row.id, role |-> row.role]

\* The comparison replaced by a test that a row was found
IsRightPasswordAnyRow(data, rows) == Len(rows) > 0

\* bcrypt.compare(data.password, rows[0].password)
IsRightPassword(data, rows) == BcryptCompare(data.password, rows[1].password)

\* bcrypt.compare completes
LoginCompared(r) ==
    /\ out = NoEvent
    /\ req[r].pc = "L70_compare"
    /\ LET rows == req[r].loc.rows
           isRightPassword == IsRightPassword(req[r].body, rows)
           token == JwtSign(LoginPayload(rows[1]), JWT_KEY)
       IN  IF ~isRightPassword
           THEN /\ Respond(r, [status |-> 401, send |-> "Unauthorized"])
                /\ UNCHANGED issued
           ELSE /\ Respond(r, [status |-> 200, json |-> [token |-> token]])
                /\ issued' = issued \cup {token}
    /\ UNCHANGED <<user, session, emargement, autoInc, dbq, signedUp, posted, deleted, nreq>>

----------------------------------------------------------------------------
(* The foreign keys of the schema (session.formateur_id -> user.id,        *)
(* emargement.session_id -> session.id, emargement.etudiant_id -> user.id) *)

UserExists(id) == \E i \in DOMAIN user : user[i].id = id

SessionExists(id) == \E i \in DOMAIN session : session[i].id = id

\* A session table whose rows the store lets go while records point at them
SessionUnreferenced(id) == FALSE

SessionReferenced(id) == \E i \in DOMAIN emargement : emargement[i].session_id = id

\* SELECT id FROM user WHERE email = ?
UserIdsByEmail(email) ==
    LET Match(row) == row.email = email
        rows == SelectSeq(user, Match)
    IN  [i \in DOMAIN rows |-> [id |-> rows[i].id]]

\* SELECT id from user where name = ?
UserIdsByName(name) ==
    LET Match(row) == row.name = name
        rows == SelectSeq(user, Match)
    IN  [i \in DOMAIN rows |-> [id |-> rows[i].id]]

Forget(id) == [i \in DOMAIN posted \ {id} |-> posted[i]]

----------------------------------------------------------------------------
(* POST /sessions *)

\* SELECT id FROM user WHERE email = ? returns; rows[0].id throws on no row
\* and the catch answers 500, otherwise the INSERT is sent
CreateSessionSelected(r) ==
    /\ Executes(r, "L105_select")
    /\ LET rows == UserIdsByEmail(req[r].body.email)
       IN  IF Len(rows) = 0
           THEN /\ Respond(r, [status |-> 500, json |-> [error |-> "TypeError"]])
                /\ dbq' = Tail(dbq)
           ELSE /\ req' = [req EXCEPT ![r].pc = "L112_insert",
                                      ![r].loc = [id_formateur |-> rows[1].id]]
                /\ dbq' = Append(Tail(dbq), r)
                /\ out' = NoEvent
    /\ UNCHANGED <<user, session, emargement, autoInc, issued, signedUp, posted, deleted, nreq>>

\* INSERT INTO session (title, date, formateur_id) VALUES (?, ?, ?)
CreateSessionInserted(r) ==
    /\ Executes(r, "L112_insert")
    /\ dbq' = Tail(dbq)
    /\ LET data == req[r].body
           id_formateur == req[r].loc.id_formateur
           insertId == autoInc.session
       IN  IF ~UserExists(id_formateur)
           THEN /\ Respond(r, [status |-> 500, json |-> [error |-> "ER_NO_REFERENCED_ROW"]])
                /\ UNCHANGED <<session, autoInc, posted, deleted>>
           ELSE /\ session' = Append(session,
                        [id |-> insertId, title |-> data.title,
                         date |-> ColumnDate(data.date_session),
                         formateur_id |-> id_formateur])
                /\ autoInc' = [autoInc EXCEPT !.session = insertId + 1]
                /\ posted' = (insertId :> [title |-> data.title, date |-> data.date_session])
                                @@ posted
                /\ UNCHANGED deleted
                /\ Respond(r, [status |-> 200,
                               json |-> [id |-> insertId, title |-> data.title,
                                         date |-> data.date_session,
                                         id_formateur |-> id_formateur]])
    /\ UNCHANGED <<user, emargement, issued, signedUp, nreq>>

----------------------------------------------------------------------------
(* GET /sessions and GET /sessions/:id *)

\* row[key] = row[key].toISOString().split("T")[0] for the Date values
FormatRow(row) ==
    [row EXCEPT !.date = IF row.date.type = "Date" THEN ToISODate(row.date.instant)
                         ELSE row.date.text]

FormatRows(rows) == [i \in DOMAIN rows |-> FormatRow(rows[i])]

\* SELECT * FROM session
SessionRows == [i \in DOMAIN session |-> DriverSessionRow(session[i])]

\* SELECT * FROM session where id = ?
SessionRowsById(id) ==
    LET Match(row) == row.id = id
    IN  SelectSeq(SessionRows, Match)

ListSessionsSelected(r) ==
    /\ Executes(r, "L130_select")
    /\ dbq' = Tail(dbq)
    /\ Respond(r, [status |-> 200, rows |-> FormatRows(SessionRows)])
    /\ UNCHANGED <<user, session, emargement, autoInc, issued, signedUp, posted, deleted, nreq>>

GetSessionSelected(r) ==
    /\ Executes(r, "L155_select")
    /\ dbq' = Tail(dbq)
    /\ LET rows == SessionRowsById(req[r].id)
       IN  IF Len(rows) = 0
           THEN Respond(r, [status |-> 404, send |-> "Session not found"])
           ELSE Respond(r, [status |-> 200, rows |-> FormatRows(rows)])
    /\ UNCHANGED <<user, session, emargement, autoInc, issued, signedUp, posted, deleted, nreq>>

----------------------------------------------------------------------------
(* PUT /sessions/:id *)

UpdateSessionSelected(r) ==
    /\ Executes(r, "L199_select")
    /\ LET formateur == UserIdsByName(req[r].body.newFormateurName)
       IN  IF Len(formateur) = 0
           THEN /\ Respond(r, [status |-> 404, send |-> "User not found"])
                /\ dbq' = Tail(dbq)
           ELSE /\ req' = [req EXCEPT ![r].pc = "L213_update",
                                      ![r].loc = [id_formateur |-> formateur[1].id]]
                /\ dbq' = Append(Tail(dbq), r)
                /\ out' = NoEvent
    /\ UNCHANGED <<user, session, emargement, autoInc, issued, signedUp, posted, deleted, nreq>>

\* An UPDATE that inserts the row when no row has the id
UpdatedSessionUpsert(id_session, data, id_formateur) ==
    LET row == [id |-> id_session, title |-> data.newTitle,
                date |-> ColumnDate(data.newDate_session), formateur_id |-> id_formateur]
    IN  IF SessionExists(id_session)
        THEN [i \in DOMAIN session |-> IF session[i].id = id_session THEN row ELSE session[i]]
        ELSE Append(session, row)

\* UPDATE session SET title = ?, date = ?, formateur_id = ? WHERE id = ?
UpdatedSession(id_session, data, id_formateur) ==
    [i \in DOMAIN session |->
        IF session[i].id = id_session
        THEN [id |-> id_session, title |-> data.newTitle,
              date |-> ColumnDate(data.newDate_session), formateur_id |-> id_formateur]
        ELSE session[i]]

\* The UPDATE returns (insertId is 0 for an UPDATE); the handler answers 200
UpdateSessionUpdated(r) ==
    /\ Executes(r, "L213_update")
    /\ dbq' = Tail(dbq)
    /\ LET data == req[r].body
           id_formateur == req[r].loc.id_formateur
       IN  IF ~UserExists(id_formateur)
           THEN /\ Respond(r, [status |-> 500, json |-> [error |-> "ER_NO_REFERENCED_ROW"]])
                /\ UNCHANGED <<session, posted, deleted>>
           ELSE /\ session' = UpdatedSession(req[r].id, data, id_formateur)
                /\ posted' = Forget(req[r].id)
                /\ UNCHANGED deleted
                /\ Respond(r, [status |-> 200,
                               json |-> [id |-> 0, new_title |-> data.newTitle,
                                         new_date |-> data.newDate_session,
                                         new_id_formateur |-> id_formateur]])
    /\ UNCHANGED <<user, emargement, autoInc, issued, signedUp, nreq>>

----------------------------------------------------------------------------
(* DELETE /sessions/:id *)

\* A handler that answers 404 when the DELETE removed no row
DeleteAnsweredNotFound(result) ==
    IF result.affectedRows = 0
    THEN [status |-> 404, send |-> "Session not found"]
    ELSE [status |-> 200, json |-> [id |-> result.insertId]]

\* res.status(200); res.json({ id: result.insertId })
DeleteAnswered(result) == [status |-> 200, json |-> [id |-> result.insertId]]

\* DELETE FROM session WHERE id = ? (insertId is 0 for a DELETE)
DeleteSessionDeleted(r) ==
    /\ Executes(r, "L236_delete")
    /\ dbq' = Tail(dbq)
    /\ LET Keep(row) == row.id # req[r].id
       IN  IF SessionExists(req[r].id) /\ SessionReferenced(req[r].id)
           THEN /\ Respond(r, [status |-> 500, json |-> [error |-> "ER_ROW_IS_REFERENCED"]])
                /\ UNCHANGED <<session, posted, deleted>>
           ELSE /\ session' = SelectSeq(session, Keep)
                /\ posted' = Forget(req[r].id)
                /\ deleted' = IF SessionExists(req[r].id)
                              THEN deleted \cup {req[r].id} ELSE deleted
                /\ Respond(r, DeleteAnswered(
                        [insertId |-> 0,
                         affectedRows |-> Len(session) - Len(SelectSeq(session, Keep))]))
    /\ UNCHANGED <<user, emargement, autoInc, issued, signedUp, nreq>>

----------------------------------------------------------------------------
(* POST /sessions/:id/emargement and GET /sessions/:id/emargement *)

EmargementSelected(r) ==
    /\ Executes(r, "L267_select")
    /\ LET rows == UserIdsByEmail(req[r].body.email)
       IN  IF Len(rows) = 0
           THEN /\ Respond(r, [status |-> 404, send |-> "User not found"])
                /\ dbq' = Tail(dbq)
           ELSE /\ req' = [req EXCEPT ![r].pc = "L281_insert",
                                      ![r].loc = [id_etudiant |-> rows[1].id]]
                /\ dbq' = Append(Tail(dbq), r)
                /\ out' = NoEvent
    /\ UNCHANGED <<user, session, emargement, autoInc, issued, signedUp, posted, deleted, nreq>>

\* INSERT INTO emargement (session_id, etudiant_id, status) VALUES (?, ?, '1')
EmargementInserted(r) ==
    /\ Executes(r, "L281_insert")
    /\ dbq' = Tail(dbq)
    /\ LET id_session == req[r].id
           id_etudiant == req[r].loc.id_etudiant
           insertId == autoInc.emargement
       IN  IF ~SessionExists(id_session) \/ ~UserExists(id_etudiant)
           THEN /\ Respond(r, [status |-> 500, json |-> [error |-> "ER_NO_REFERENCED_ROW"]])
                /\ UNCHANGED <<emargement, autoInc>>
           ELSE /\ emargement' = Append(emargement,
                        [id |-> insertId, session_id |-> id_session,
                         etudiant_id |-> id_etudiant, status |-> "1"])
                /\ autoInc' = [autoInc EXCEPT !.emargement = insertId + 1]
                /\ Respond(r, [status |-> 200,
                               json |-> [id |-> insertId, id_session |-> id_session,
                                         id_etudiant |-> id_etudiant, status |-> "1"]])
    /\ UNCHANGED <<user, session, issued, signedUp, posted, deleted, nreq>>

\* The join without its WHERE: the names of every session's records
AttendanceNamesOfAll(id) ==
    LET NameOf(uid) == (CHOOSE u \in Range(user) : u.id = uid).name
    IN  [i \in DOMAIN emargement |-> [name |-> NameOf(emargement[i].etudiant_id)]]

\* SELECT u.name FROM user u INNER JOIN emargement e ON u.id = e.etudiant_id
\* WHERE e.session_id = ?
AttendanceNames(id) ==
    LET Match(e) == e.session_id = id
        es == SelectSeq(emargement, Match)
        NameOf(uid) == (CHOOSE u \in Range(user) : u.id = uid).name
    IN  [i \in DOMAIN es |-> [name |-> NameOf(es[i].etudiant_id)]]

ListEmargementSelected(r) ==
    /\ Executes(r, "L302_select")
    /\ dbq' = Tail(dbq)
    /\ Respond(r, [status |-> 200, rows |-> AttendanceNames(req[r].id)])
    /\ UNCHANGED <<user, session, emargement, autoInc, issued, signedUp, posted, deleted, nreq>>

----------------------------------------------------------------------------

\* The client reads the response
Deliver ==
    /\ out # NoEvent
    /\ out' = NoEvent
    /\ UNCHANGED <<user, session, emargement, autoInc, req, dbq, issued, signedUp, posted, deleted, nreq>>

Next ==
    \/ /\ out = NoEvent /\ nreq < MaxRequests
       /\ \E r \in Slots, route \in Routes :
             \E request \in Requests(route) :
                 Arrive(r, route, request[1], request[2], request[3])
    \/ \E r \in Slots, salt \in Salts : SignupHashed(r, salt)
    \/ \E r \in Slots : SignupInserted(r)
    \/ \E r \in Slots : LoginSelected(r)
    \/ \E r \in Slots : LoginCompared(r)
    \/ \E r \in Slots : CreateSessionSelected(r)
    \/ \E r \in Slots : CreateSessionInserted(r)
    \/ \E r \in Slots : ListSessionsSelected(r)
    \/ \E r \in Slots : GetSessionSelected(r)
    \/ \E r \in Slots : UpdateSessionSelected(r)
    \/ \E r \in Slots : UpdateSessionUpdated(r)
    \/ \E r \in Slots : DeleteSessionDeleted(r)
    \/ \E r \in Slots : EmargementSelected(r)
    \/ \E r \in Slots : EmargementInserted(r)
    \/ \E r \in Slots : ListEmargementSelected(r)
    \/ Deliver

Spec == Init /\ [][Next]_vars

----------------------------------------------------------------------------
(* Failing awaits: the store rejects a statement, bcrypt rejects a call *)

\* The awaits that a try block encloses
InTry(pc) ==
    pc \in {"L30_hash", "L31_insert", "L112_insert", "L199_select", "L213_update",
            "L236_delete", "L267_select", "L281_insert"}

\* catch (error): res.status(500).json({ error: error.message })
Catch(message) == [status |-> 500, json |-> [error |-> message]]

\* What node does with a rejection nothing handles: it warns and goes on,
\* or it throws and the process exits
UnhandledRejections == {"warn", "throw"}

Exited == [pc |-> "exited"]

\* The await of slot r rejects: the catch answers 500, or, outside a try,
\* the handler's promise rejects and no response is sent
Rejects(r, message, mode) ==
    IF InTry(req[r].pc)
    THEN /\ Respond(r, Catch(message))
         /\ dbq' = IF dbq # <<>> /\ Head(dbq) = r THEN Tail(dbq) ELSE dbq
    ELSE /\ out' = NoEvent
         /\ IF mode = "throw"
            THEN /\ req' = [q \in Slots |-> Exited]
                 /\ dbq' = <<>>
            ELSE /\ req' = [req EXCEPT ![r].pc = "unhandled"]
                 /\ dbq' = IF dbq # <<>> /\ Head(dbq) = r THEN Tail(dbq) ELSE dbq

\* The statement the connection executes next fails
StoreFails(r, mode) ==
    /\ out = NoEvent
    /\ dbq # <<>> /\ Head(dbq) = r
    /\ Rejects(r, "ECONNRESET", mode)
    /\ UNCHANGED <<user, session, emargement, autoInc, issued, signedUp, posted, deleted, nreq>>

\* bcrypt.hash or bcrypt.compare fails
BcryptFails(r, mode) ==
    /\ out = NoEvent
    /\ req[r].pc \in {"L30_hash", "L70_compare"}
    /\ Rejects(r, "bcrypt", mode)
    /\ UNCHANGED <<user, session, emargement, autoInc, issued, signedUp, posted, deleted, nreq>>

NextFault ==
    \/ Next
    \/ \E r \in Slots, mode \in UnhandledRejections : StoreFails(r, mode)
    \/ \E r \in Slots, mode \in UnhandledRejections : BcryptFails(r, mode)

SpecFault == Init /\ [][NextFault]_vars

----------------------------------------------------------------------------
(* Vocabulary of the properties *)

TrainerOnly ==
    {"POST /sessions", "PUT /sessions/:id", "DELETE /sessions/:id",
     "GET /sessions/:id/emargement"}

TraineeOnly == {"POST /sessions/:id/emargement"}

SessionWriters == {"POST /sessions", "PUT /sessions/:id", "DELETE /sessions/:id"}

\* The token is one the server signed, for the role
SignedFor(token, role) ==
    /\ JwtVerify(token, JWT_KEY).ok
    /\ JwtVerify(token, JWT_KEY).payload.role = role

\* The last step answered a request to the route
Answered(route) == out.route = route

WellFormed(route, body) == SchemaErrors(route, body) = {}

UserByEmail(email) == {u \in Range(user) : u.email = email}

UserByName(name) == {u \in Range(user) : u.name = name}

----------------------------------------------------------------------------
(* C1: a request with a token issued to a trainee is answered Forbidden   *)
(* (403) by every trainer-only route, and one with a token issued to a    *)
(* trainer is answered Forbidden by the trainee-only route; the handler   *)
(* does not run and the tables are unchanged.                              *)
C1_WrongRoleForbidden ==
    [][\/ out' = NoEvent
       \/ ~ \/ out'.route \in TrainerOnly /\ SignedFor(out'.token, "etudiant")
            \/ out'.route \in TraineeOnly /\ SignedFor(out'.token, "formateur")
       \/ /\ out'.res.status = 403
          /\ req' = req
          /\ store' = store]_vars

\* C1 on the requests whose body is well formed (the part the code meets)
C1_WrongRoleForbiddenWellFormed ==
    [][\/ out' = NoEvent
       \/ ~ \/ out'.route \in TrainerOnly /\ SignedFor(out'.token, "etudiant")
            \/ out'.route \in TraineeOnly /\ SignedFor(out'.token, "formateur")
       \/ ~WellFormed(out'.route, out'.body)
       \/ /\ out'.res.status = 403
          /\ req' = req
          /\ store' = store]_vars

----------------------------------------------------------------------------
(* C2: a login that arrives after a signup was answered 200, with the     *)
(* e-mail and password of that signup, is answered 200 with a token       *)
(* signed by the server whose payload is the id the signup returned and   *)
(* the role it gave, whatever happened in between.                         *)
C2_LoginAfterSignup ==
    (Answered("POST /auth/login") /\ out.known) =>
        /\ out.res.status = 200
        /\ \E s \in signedUp :
              /\ s.email = out.body.email
              /\ s.password = out.body.password
              /\ JwtVerify(out.res.json.token, JWT_KEY).ok
              /\ out.res.json.token.payload = [id |-> s.id, role |-> s.role]

\* Witness of C2: such a login is answered, for the second user signed up,
\* after sessions were created
C2_Witness ==
    /\ Answered("POST /auth/login") /\ out.known
    /\ out.res.status = 200
    /\ out.res.json.token.payload.id = 2
    /\ session # <<>>

----------------------------------------------------------------------------
(* C3: every step that changes the session table executes the statement   *)
(* of a request to POST /sessions, PUT /sessions/:id or DELETE            *)
(* /sessions/:id that carries a token the server signed for a trainer; no *)
(* request without such a token is ever in a handler of these routes.     *)
C3_SessionsChangedByTrainers ==
    [][/\ session' # session =>
            \E r \in Slots :
                /\ dbq # <<>> /\ Head(dbq) = r
                /\ req[r].route \in SessionWriters
                /\ SignedFor(req[r].token, "formateur")
       /\ \A r \in Slots :
            (req'[r].pc # "idle" /\ req'[r].route \in SessionWriters)
                => SignedFor(req'[r].token, "formateur")]_vars

\* Witness of C3: a trainer's PUT has rewritten a session row
C3_Witness ==
    /\ Answered("PUT /sessions/:id")
    /\ out.res.status = 200
    /\ SignedFor(out.token, "formateur")
    /\ \E i \in DOMAIN session : session[i].title = "Algo"

----------------------------------------------------------------------------
(* C4: PUT /sessions/:id by an authorized trainer, with a well-formed     *)
(* body whose newFormateurName names a user, for an id that is not in the *)
(* session table, is answered NotFound (404).                              *)
C4_UpdateOfMissingSessionNotFound ==
    ( /\ Answered("PUT /sessions/:id")
      /\ SignedFor(out.token, "formateur")
      /\ WellFormed(out.route, out.body)
      /\ UserByName(out.body.newFormateurName) # {}
      /\ ~SessionExists(out.id) )
    => out.res.status = 404

----------------------------------------------------------------------------
(* C5: POST /sessions by an authorized trainer whose body e-mail is the   *)
(* e-mail of no user is answered NotFound (404), and inserts no session.  *)
C5_CreateWithUnknownEmailNotFound ==
    ( /\ Answered("POST /sessions")
      /\ SignedFor(out.token, "formateur")
      /\ WellFormed(out.route, out.body)
      /\ UserByEmail(out.body.email) = {} )
    => out.res.status = 404

----------------------------------------------------------------------------
(* C6: on POST /sessions, PUT /sessions/:id and POST                      *)
(* /sessions/:id/emargement, a request without a token signed for the     *)
(* route's role and with a malformed body is answered 401 or 403, never a *)
(* validation error.                                                       *)
C6_AuthorizationBeforeValidation ==
    \A route \in {"POST /sessions", "PUT /sessions/:id", "POST /sessions/:id/emargement"} :
        ( /\ Answered(route)
          /\ ~SignedFor(out.token, IF route \in TraineeOnly THEN "etudiant" ELSE "formateur")
          /\ ~WellFormed(route, out.body) )
        => out.res.status \in {401, 403}

----------------------------------------------------------------------------
(* C7: the emargement table never holds two rows with the same session_id *)
(* and the same etudiant_id.                                               *)
C7_OneAttendancePerPair ==
    \A i, j \in DOMAIN emargement :
        ( /\ emargement[i].session_id = emargement[j].session_id
          /\ emargement[i].etudiant_id = emargement[j].etudiant_id )
        => i = j

----------------------------------------------------------------------------
(* C8: the formateur_id of every session row is the id of a user whose    *)
(* role is formateur.                                                      *)
C8_SessionTrainerIsTrainer ==
    \A i \in DOMAIN session :
        \E u \in Range(user) : u.id = session[i].formateur_id /\ u.role = "formateur"

----------------------------------------------------------------------------
(* C9: GET /sessions/:id for an id returned by an answered POST /sessions *)
(* and neither updated nor deleted since is answered 200 with one row,    *)
(* whose title and date are the title and the YYYY-MM-DD date posted.     *)
C9_CreateThenGetRoundTrip ==
    (Answered("GET /sessions/:id") /\ out.id \in DOMAIN posted) =>
        /\ out.res.status = 200
        /\ Len(out.res.rows) = 1
        /\ out.res.rows[1].id = out.id
        /\ out.res.rows[1].title = posted[out.id].title
        /\ out.res.rows[1].date = posted[out.id].date

\* Witness of C9: the session posted for 2024-03-01 is read back
C9_Witness ==
    /\ Answered("GET /sessions/:id") /\ out.id \in DOMAIN posted
    /\ posted[out.id].date = Date(2024, 3, 1)
    /\ out.res.status = 200

----------------------------------------------------------------------------
(* C10: a login with a well-formed body is answered 401 without a token   *)
(* when no user has the e-mail or when the password does not verify       *)
(* against the stored hash of the user with the e-mail; a token is in the *)
(* answer, and in clients' hands, only for a user whose e-mail and        *)
(* password were given, and it carries that user's id and role.           *)
C10_LoginFailsUnauthenticated ==
    /\ (Answered("POST /auth/login") /\ WellFormed(out.route, out.body)) =>
          LET rows == UserByEmail(out.body.email)
              verified == {u \in rows : BcryptCompare(out.body.password, u.password)}
          IN  /\ verified = {} => (out.res.status = 401 /\ ~Has(out.res, "json"))
              /\ Has(out.res, "json") =>
                    \E u \in verified :
                        out.res.json.token = JwtSign([id |-> u.id, role |-> u.role], JWT_KEY)
    /\ \A t \in issued :
          \E u \in Range(user) : t = JwtSign([id |-> u.id, role |-> u.role], JWT_KEY)

\* Witness of C10: a wrong password for an existing e-mail was refused
C10_Witness ==
    /\ Answered("POST /auth/login") /\ WellFormed(out.route, out.body)
    /\ UserByEmail(out.body.email) # {}
    /\ \A u \in UserByEmail(out.body.email) : ~BcryptCompare(out.body.password, u.password)
    /\ out.res.status = 401

----------------------------------------------------------------------------
(* C11: every request that reaches a handler is answered, also when an   *)
(* await of its handler fails: no handler ends on a rejection that sends  *)
(* no response, and no failure takes the process, and with it the other   *)
(* requests in flight, down.                                               *)
C11_EveryFailureAnswered ==
    \A r \in Slots : req[r].pc \notin {"unhandled", "exited"}

----------------------------------------------------------------------------
(* C12: a signup whose e-mail a user row already holds is answered with   *)
(* the store's duplicate-key error (500) and adds no row; of the signups  *)
(* with one e-mail at most one succeeds, however they interleave, and no  *)
(* two user rows ever share an e-mail.                                     *)
C12_SignupConflict ==
    [][/\ (/\ out'.route = "POST /auth/signup"
           /\ WellFormed(out'.route, out'.body)
           /\ EmailTaken(out'.body.email))
          => /\ out'.res.status = 500
             /\ out'.res.json.error = "ER_DUP_ENTRY"
             /\ user' = user
       /\ \A s, t \in signedUp' : s.email = t.email => s = t
       /\ \A i, j \in DOMAIN user' : user'[i].email = user'[j].email => i = j]_vars

\* Witness of C12: a signup was refused whose own e-mail and password
\* were not yet signed up when it arrived: the two were in flight together
C12_Witness ==
    /\ Answered("POST /auth/signup")
    /\ out.res.status = 500
    /\ ~out.known
    /\ \E s \in signedUp : s.email = out.body.email /\ s.password = out.body.password

----------------------------------------------------------------------------
(* C13: a session id goes from nonexistent to active by a create, stays   *)
(* active under updates, and is deleted for good: the ids of the rows are *)
(* ids a create has given out, each once, no row has an id that a DELETE  *)
(* has removed, whatever was created, updated or recorded since, and a    *)
(* GET of such an id is answered 404.                                      *)
C13_DeletedIsTerminal ==
    /\ \A i, j \in DOMAIN session :
          /\ session[i].id < autoInc.session
          /\ session[i].id = session[j].id => i = j
    /\ \A id \in deleted : ~SessionExists(id)
    /\ (Answered("GET /sessions/:id") /\ out.id \in deleted)
          => out.res.status = 404 /\ out.res.send = "Session not found"

\* Witness of C13: an update of a deleted session was answered 200, and a
\* session created after the delete exists
C13_Witness ==
    /\ Answered("PUT /sessions/:id")
    /\ out.id \in deleted
    /\ out.res.status = 200
    /\ session # <<>>

----------------------------------------------------------------------------
(* C14: a trainer's DELETE of a session id that no row has, never created *)
(* or deleted before, is answered 200 and leaves the tables as they were: *)
(* a delete applied again changes nothing more.                            *)
C14_DeleteIdempotent ==
    [][(/\ out'.route = "DELETE /sessions/:id"
        /\ SignedFor(out'.token, "formateur")
        /\ ~SessionExists(out'.id))
       => /\ out'.res.status = 200
          /\ store' = store]_vars

\* Witness of C14: the DELETE of an id that was never a row was answered 200
C14_Witness ==
    /\ Answered("DELETE /sessions/:id")
    /\ out.res.status = 200
    /\ ~SessionExists(out.id)
    /\ out.id \notin deleted
    /\ session # <<>>

----------------------------------------------------------------------------
(* C15: the user table changes only when a signup is answered 200, and    *)
(* then by one added row: every other step keeps it, no row is ever       *)
(* changed or removed, and the user id a handler resolved in its first    *)
(* statement is still the id of a row when its second statement runs.     *)
C15_UsersOnlyBySignup ==
    [][/\ \A i \in DOMAIN user : i \in DOMAIN user' /\ user'[i] = user[i]
       /\ user' # user =>
             /\ out'.route = "POST /auth/signup" /\ out'.res.status = 200
             /\ Len(user') = Len(user) + 1
             /\ user'[Len(user')].id = out'.res.json.id
             /\ user'[Len(user')].email = out'.body.email
             /\ user'[Len(user')].role = out'.body.role
       /\ \A r \in Slots :
             /\ req'[r].pc \in {"L112_insert", "L213_update"} =>
                   \E u \in Range(user') : u.id = req'[r].loc.id_formateur
             /\ req'[r].pc = "L281_insert" =>
                   \E u \in Range(user') : u.id = req'[r].loc.id_etudiant]_vars

\* Witness of C15: a signup added a second user while a handler that had
\* resolved a user id was waiting for its second statement
C15_Witness ==
    /\ Answered("POST /auth/signup") /\ out.res.status = 200
    /\ Len(user) >= 2
    /\ \E r \in Slots : req[r].pc \in {"L112_insert", "L213_update", "L281_insert"}

----------------------------------------------------------------------------
(* C16: when an attendance is recorded (200), the etudiant_id of the      *)
(* inserted record is the user id in the verified token of the request,   *)
(* and that user is a trainee: nobody records for another user's e-mail.  *)
C16_OwnAttendanceOnly ==
    (Answered("POST /sessions/:id/emargement") /\ out.res.status = 200) =>
        /\ JwtVerify(out.token, JWT_KEY).ok
        /\ out.res.json.id_etudiant = JwtVerify(out.token, JWT_KEY).payload.id
        /\ emargement[Len(emargement)].etudiant_id = JwtVerify(out.token, JWT_KEY).payload.id
        /\ \E u \in Range(user) : u.id = out.res.json.id_etudiant /\ u.role = "etudiant"

----------------------------------------------------------------------------
(* C17: every attendance record points at a session row that exists: a    *)
(* recordAttendance for an id that has no row, never created or deleted   *)
(* meanwhile, is not answered 200 and leaves no record for the id, and a  *)
(* delete leaves no record pointing at the session it removed.            *)
C17_AttendanceReferencesSession ==
    /\ \A i \in DOMAIN emargement :
          \E j \in DOMAIN session : session[j].id = emargement[i].session_id
    /\ \A id \in deleted :
          \A i \in DOMAIN emargement : emargement[i].session_id # id
    /\ (/\ Answered("POST /sessions/:id/emargement")
        /\ \A j \in DOMAIN session : session[j].id # out.id)
          => out.res.status # 200

\* Witness of C17: a recordAttendance that had resolved its user was
\* refused because the session had been deleted
C17_Witness ==
    /\ Answered("POST /sessions/:id/emargement")
    /\ out.id \in deleted
    /\ out.res.status = 500
    /\ emargement = <<>>

----------------------------------------------------------------------------
(* C18: the answer of listAttendance for a session has one entry per      *)
(* attendance record of that session, each entry the name of the record's *)
(* trainee and nothing else: every name is in the answer as many times as *)
(* the session has records of users with that name, so no entry comes     *)
(* from a record of another session or from a user without a record.      *)
C18_AttendanceNamesExact ==
    Answered("GET /sessions/:id/emargement") /\ out.res.status = 200 =>
        LET records == {i \in DOMAIN emargement : emargement[i].session_id = out.id}
            rows == out.res.rows
            Named(n) == {i \in records :
                            \E u \in Range(user) :
                                u.id = emargement[i].etudiant_id /\ u.name = n}
        IN  /\ Len(rows) = Cardinality(records)
            /\ \A k \in DOMAIN rows :
                  /\ DOMAIN rows[k] = {"name"}
                  /\ Cardinality({j \in DOMAIN rows : rows[j].name = rows[k].name})
                        = Cardinality(Named(rows[k].name))

\* Witness of C18: the list of a session with a record was answered
C18_Witness ==
    /\ Answered("GET /sessions/:id/emargement") /\ out.res.status = 200
    /\ Len(out.res.rows) >= 1
    /\ \E i \in DOMAIN emargement : emargement[i].session_id = out.id

============================================================================
